---- MODULE Spec2Model ----
(***************************************************************************)
(* DeviceStatsReporter: the runtime of runner::run (src/src/lib/runner.rs) *)
(* as a state machine.  Three threads of control take steps: the main      *)
(* thread inside run() and main(), the worker spawned in Continuous mode,  *)
(* and the thread on which the ctrlc crate invokes the interrupt handler.  *)
(* A cycle is one call of Runner::execute_check; its steps are the calls   *)
(* it makes, each with the outcomes (Ok / Err) the callee can return.      *)
(***************************************************************************)
EXTENDS Integers, Sequences, FiniteSets, TLC

\* ------------------------------------------------------------------ bounds
\* cycles the worker may start before the model stops admitting new ones
MaxCycles == 3
\* interrupt signals delivered to the process during one run
MaxSignals == 2
\* largest check_interval (minutes) a loaded configuration carries in the model
MaxInterval == 2
\* bits of the machine word standing for u64 / i64 (TLC integers have 32)
WordBits == 16
\* how far beyond the accepted range a configured check_interval reaches
MaxOver == 6
MaxBytes == 2
MaxDisks == 1

\* ------------------------------------------------------- program constants
MINUTES_MULTIPLIER == 60
DEFAULT_CHECK_INTERVAL == 1
MINIMUM_CHECK_INTERVAL == DEFAULT_CHECK_INTERVAL
MAXIMUM_CHECK_INTERVAL == 240

\* ------------------------------------------------------------------- state
VARIABLES
    mpc,               \* main thread: position inside run() / main()
    run_result,        \* what run() returned: "none", "ok" or the error's origin
    runtime_mode,      \* runner_config.runtime_mode, "none" before load_config
    check_interval,    \* runner_config.check_interval (minutes)
    wpc,               \* worker thread: position inside the spawned closure
    running,           \* the AtomicBool shared by worker and handler
    park_token,        \* the worker thread's park/unpark token
    remaining,         \* seconds left of the current park_timeout
    handler_installed, \* ctrlc::set_handler returned Ok
    hpc,               \* handler closure: "idle" | "unpark"
    signals,           \* interrupt signals handled so far
    stage,             \* per thread: the step of execute_check it is at
    trace,             \* per thread: the calls made in its current cycle
    connected,         \* mqtt_client is connected
    started,           \* per thread: calls of execute_check begun
    ended,             \* per thread: calls of execute_check returned
    fails,             \* consecutive worker cycles that returned Err
    waits_ended,       \* returns of park_timeout
    workers_spawned,   \* calls of thread::spawn
    after_cancel,      \* worker cycles begun while running = FALSE
    store_at,          \* wpc at the first store of FALSE, "never" before
    woke_by,           \* why the last park_timeout returned
    exit_status,       \* the status the process ended with, -1 while alive
    config,            \* the configuration source named by args.get(1)
    run_error,         \* the error value run() returned, NoError if none
    payload,           \* per thread: the cycle whose report compressed_report holds, 0 if none
    published,         \* per thread: the cycle whose payload was given to publish, 0 if none
    sys,               \* the values the sysinfo provider returns to generate_report
    report             \* the SystemReport generate_report produced, NoReport before

vars == <<mpc, run_result, runtime_mode, check_interval, wpc, running,
          park_token, remaining, handler_installed, hpc, signals, stage,
          trace, connected, started, ended, fails, waits_ended,
          workers_spawned, after_cancel, store_at, woke_by,
          exit_status,
          config,
          run_error,
          payload,
          published,
          sys,
          report>>

Threads == {"main", "worker"}
Results == {"ok", "err"}
Modes == {"Single", "Continuous"}

\* the process is alive until main() has returned
Alive == mpc # "exited"

Call(op, res) == [op |-> op, res |-> res]

\* ---------------------------------------------------------- configuration
\* error values: RuntimeError / IllegalArgumentError with their details
Error(type, details, args) == [type |-> type, details |-> details, args |-> args]
NoError == Error("none", "", <<>>)

\* a configuration source: no argument, a file that cannot be read, or a
\* file with (or without) the keys runtime_mode and check_interval
\* check_interval in the file: no such key, a value that is no integer,
\* or an integer
Absent == [kind |-> "absent", value |-> 0]
Bad == [kind |-> "bad", value |-> 0]
Int64(v) == [kind |-> "int", value |-> v]
NoArg == [path |-> "none", mode |-> "absent", interval |-> Absent]
Unreadable == [path |-> "unreadable", mode |-> "absent", interval |-> Absent]
File(mode, interval) == [path |-> "file", mode |-> mode, interval |-> interval]

\* the mode literals: the two recognised ones, any other, or no key
ModeKeys == {"absent", "Single", "Continuous", "Bogus"}

IntMin == -(2 ^ (WordBits - 1))
IntMax == (2 ^ (WordBits - 1)) - 1
\* the integers a configuration file is given for check_interval
CfgValues ==
    ((0 - MaxOver)..(MAXIMUM_CHECK_INTERVAL + MaxOver)) \cup {IntMin, IntMax}

\* every configuration source the loader is checked on
ConfigFiles ==
    {NoArg, Unreadable}
        \cup {File(m, i) : m \in ModeKeys,
                            i \in {Absent, Bad} \cup {Int64(v) : v \in CfgValues}}

\* the configuration sources of a run
RunConfigs ==
    {NoArg, Unreadable}
        \cup {File(m, Absent) : m \in ModeKeys \ {"Continuous"}}
        \cup {File("Continuous", i) :
                 i \in {Absent, Bad} \cup {Int64(v) : v \in -1..MaxInterval}}

\* settings.get::<u64>(CHECK_INTERVAL_KEY): the integer of the file, cast
\* to the unsigned word (a negative value wraps)
ToU64(v) == v % (2 ^ WordBits)

\* variant: the range test has no lower bound
InRange_NoMinimum(u) == u <= MAXIMUM_CHECK_INTERVAL

\* check_interval >= MINIMUM_CHECK_INTERVAL && check_interval <= MAXIMUM_CHECK_INTERVAL
InRange(u) == u >= MINIMUM_CHECK_INTERVAL /\ u <= MAXIMUM_CHECK_INTERVAL

RangeError ==
    Error("IllegalArgumentError", "Check interval must be between",
          <<MINIMUM_CHECK_INTERVAL, MAXIMUM_CHECK_INTERVAL>>)

Loaded(mode, interval) ==
    [ok |-> TRUE, runtime_mode |-> mode, check_interval |-> interval, err |-> NoError]
Failed(err) ==
    [ok |-> FALSE, runtime_mode |-> "none", check_interval |-> DEFAULT_CHECK_INTERVAL,
     err |-> err]

\* load_config(config_path): the RunnerConfig, or the error
load_config(c) ==
    IF c.path = "none" THEN Loaded("Single", DEFAULT_CHECK_INTERVAL)
    ELSE IF c.path = "unreadable" THEN Failed(Error("RuntimeError", "settings.merge", <<>>))
    ELSE IF c.mode = "absent" THEN Loaded("Single", DEFAULT_CHECK_INTERVAL)
    ELSE IF c.mode = "Single" THEN Loaded("Single", DEFAULT_CHECK_INTERVAL)
    ELSE IF c.mode = "Continuous" THEN
        IF c.interval.kind = "absent" THEN Loaded("Continuous", DEFAULT_CHECK_INTERVAL)
        ELSE IF c.interval.kind = "bad"
            THEN Failed(Error("IllegalArgumentError", "invalid type", <<>>))
        ELSE IF InRange(ToU64(c.interval.value))
            THEN Loaded("Continuous", ToU64(c.interval.value))
        ELSE Failed(RangeError)
    ELSE Failed(Error("IllegalArgumentError", "Unexpected runtime mode", <<>>))

\* the state when run() is entered, the configuration source left open
\* ------------------------------------------------ generate_report (runner.rs)
\* byte counts the provider answers with (u64 in the source)
Bytes == 0..MaxBytes

\* a disk as sysinfo answers for it: whether get_name() is valid UTF-8,
\* get_total_space() and get_available_space()
Disk(name_ok, total, available) ==
    [name_ok |-> name_ok, total |-> total, available |-> available]

Disks == {Disk(n, t, a) : n \in BOOLEAN, t \in Bytes, a \in Bytes}

DiskLists == UNION {[1..n -> Disks] : n \in 0..MaxDisks}

\* every answer of the provider: the disks, get_total_memory() and
\* get_available_memory(); the getters are independent u64 values
ProviderValues ==
    [disks : DiskLists, mem_total : Bytes, mem_available : Bytes]

SteadyProvider ==
    [disks |-> <<Disk(TRUE, 2, 1)>>, mem_total |-> 2, mem_available |-> 1]

DiskReport(disk_used, disk_capacity) ==
    [disk_used |-> disk_used, disk_capacity |-> disk_capacity]

MemoryReport(memory_used, memory_capacity) ==
    [memory_used |-> memory_used, memory_capacity |-> memory_capacity]

SystemReport(returned, panicked, disks, memory) ==
    [returned |-> returned, panicked |-> panicked,
     disks |-> disks, memory |-> memory]

NoReport == SystemReport(FALSE, FALSE, <<>>, MemoryReport(0, 0))

\* the disks filter_map keeps: those whose name converts to &str
Named(ds) == SelectSeq(ds, LAMBDA d : d.name_ok)

\* u64 `a - b` of a build without overflow checks
WrappingSub(a, b) == (a - b + 2 ^ WordBits) % (2 ^ WordBits)

\* u64 `a - b` overflows
Overflows(a, b) == b > a

\* generate_report(sys): `checks` is whether the build has overflow checks
\* (the dev profile has, the release profile has not).  With them an
\* overflowing subtraction panics, without them it wraps.
generate_report(s, checks) ==
    LET kept == Named(s.disks)
        over == \/ \E i \in 1..Len(kept) :
                      Overflows(kept[i].total, kept[i].available)
                \/ Overflows(s.mem_total, s.mem_available)
    IN  IF checks /\ over
        THEN SystemReport(FALSE, TRUE, <<>>, MemoryReport(0, 0))
        ELSE SystemReport(TRUE, FALSE,
                 [i \in 1..Len(kept) |->
                     DiskReport(WrappingSub(kept[i].total, kept[i].available),
                                kept[i].total)],
                 MemoryReport(WrappingSub(s.mem_total, s.mem_available),
                              s.mem_total))

InitState ==
    /\ mpc = "load_config"
    /\ run_result = "none"
    /\ runtime_mode = "none"
    /\ check_interval = DEFAULT_CHECK_INTERVAL
    /\ wpc = "none"
    /\ running = TRUE
    /\ park_token = FALSE
    /\ remaining = 0
    /\ handler_installed = FALSE
    /\ hpc = "idle"
    /\ signals = 0
    /\ stage = [t \in Threads |-> "idle"]
    /\ trace = [t \in Threads |-> <<>>]
    /\ connected = FALSE
    /\ started = [t \in Threads |-> 0]
    /\ ended = [t \in Threads |-> 0]
    /\ fails = 0
    /\ waits_ended = 0
    /\ workers_spawned = 0
    /\ after_cancel = 0
    /\ store_at = "never"
    /\ woke_by = "none"
    /\ exit_status = -1
    /\ run_error = NoError
    /\ payload = [t \in Threads |-> 0]
    /\ published = [t \in Threads |-> 0]
    /\ report = NoReport

\* in a run the provider is taken to answer available <= total
Init ==
    /\ InitState
    /\ config \in RunConfigs
    /\ sys = SteadyProvider

\* ---------------------------------------------------------- run(): startup
\* load_config(args.get(1))? : Ok with the mode and interval of the
\* configuration (Single keeps the default interval), or Err returned by `?`
LoadConfigOk ==
    /\ mpc = "load_config"
    /\ load_config(config).ok
    /\ runtime_mode' = load_config(config).runtime_mode
    /\ check_interval' = load_config(config).check_interval
    /\ mpc' = "new_runner"
    /\ UNCHANGED <<run_result, wpc, running, park_token, remaining,
                   handler_installed, hpc, signals, stage, trace, connected,
                   started, ended, fails, waits_ended, workers_spawned,
                   after_cancel, store_at, woke_by,
                   exit_status,
                   config,
                   run_error,
                   payload,
                   published,
                   sys,
                   report>>

LoadConfigErr ==
    /\ mpc = "load_config"
    /\ ~load_config(config).ok
    /\ mpc' = "returned"
    /\ run_result' = "config_err"
    /\ run_error' = load_config(config).err
    /\ UNCHANGED <<runtime_mode, check_interval, wpc, running, park_token,
                   remaining, handler_installed, hpc, signals, stage, trace,
                   connected, started, ended, fails, waits_ended,
                   workers_spawned, after_cancel, store_at, woke_by,
                   exit_status,
                   config,
                   payload,
                   published,
                   sys,
                   report>>

\* Runner::new(&runner_config)? : paho_mqtt::Client::new may fail
NewRunnerOk ==
    /\ mpc = "new_runner"
    /\ mpc' = "match_mode"
    /\ UNCHANGED <<run_result, runtime_mode, check_interval, wpc, running,
                   park_token, remaining, handler_installed, hpc, signals,
                   stage, trace, connected, started, ended, fails,
                   waits_ended, workers_spawned, after_cancel, store_at, woke_by,
                   exit_status,
                   config,
                   run_error,
                   payload,
                   published,
                   sys,
                   report>>

\* variant: the error of Runner::new is kept but the run goes on
NewRunnerErr_GoesOn ==
    /\ mpc = "new_runner"
    /\ mpc' = "match_mode"
    /\ run_result' = "runner_err"
    /\ run_error' = Error("RuntimeError", "paho_mqtt::Client::new", <<>>)
    /\ UNCHANGED <<runtime_mode, check_interval, wpc, running, park_token,
                   remaining, handler_installed, hpc, signals, stage, trace,
                   connected, started, ended, fails, waits_ended,
                   workers_spawned, after_cancel, store_at, woke_by,
                   exit_status,
                   config,
                   payload,
                   published,
                   sys,
                   report>>


NewRunnerErr ==
    /\ mpc = "new_runner"
    /\ mpc' = "returned"
    /\ run_result' = "runner_err"
    /\ run_error' = Error("RuntimeError", "paho_mqtt::Client::new", <<>>)
    /\ UNCHANGED <<runtime_mode, check_interval, wpc, running, park_token,
                   remaining, handler_installed, hpc, signals, stage, trace,
                   connected, started, ended, fails, waits_ended,
                   workers_spawned, after_cancel, store_at, woke_by,
                   exit_status,
                   config,
                   payload,
                   published,
                   sys,
                   report>>

\* ------------------------------------------------- Runner::execute_check
\* thread t is inside execute_check
Executing(t) ==
    /\ Alive
    /\ IF t = "main" THEN mpc = "single_check" ELSE wpc = "in_check"

\* variant: the cycle captures the snapshot first and never makes the ids
BeginCycle_SnapshotFirst(t) ==
    /\ stage' = [stage EXCEPT ![t] = "report"]
    /\ trace' = [trace EXCEPT ![t] = <<>>]
    /\ started' = [started EXCEPT ![t] = @ + 1]
    /\ payload' = [payload EXCEPT ![t] = 0]
    /\ published' = [published EXCEPT ![t] = 0]

\* entry of execute_check: a fresh cycle for thread t
BeginCycle(t) ==
    /\ stage' = [stage EXCEPT ![t] = "timestamp"]
    /\ trace' = [trace EXCEPT ![t] = <<>>]
    /\ started' = [started EXCEPT ![t] = @ + 1]
    /\ payload' = [payload EXCEPT ![t] = 0]
    /\ published' = [published EXCEPT ![t] = 0]

\* variant: the Single arm propagates the cycle's error
SingleResult_Propagate(res) == IF res = "err" THEN "check_err" ELSE "ok"

\* run(), Single arm: both match arms fall through to Ok(())
SingleResult(res) == "ok"

\* variant: the worker closure returns on a failed cycle
AfterCheck_Break(res) == IF res = "err" THEN "stopped" ELSE "park"

\* worker closure: both match arms fall through to park_timeout
AfterCheck(res) == "park"

\* a step of the cycle that is followed by another step
Advance(t, calls, nxt) ==
    /\ stage' = [stage EXCEPT ![t] = nxt]
    /\ trace' = [trace EXCEPT ![t] = @ \o calls]
    /\ UNCHANGED <<mpc, run_result, runtime_mode, check_interval, wpc,
                   running, park_token, remaining, handler_installed, hpc,
                   signals, started, ended, fails, waits_ended,
                   workers_spawned, after_cancel, store_at, woke_by,
                   exit_status,
                   config,
                   run_error,
                   sys,
                   report>>

\* execute_check returns res to its caller, which matches on it
Finish(t, calls, res) ==
    /\ stage' = [stage EXCEPT ![t] = "idle"]
    /\ trace' = [trace EXCEPT ![t] = @ \o calls]
    /\ ended' = [ended EXCEPT ![t] = @ + 1]
    /\ IF t = "main"
         THEN /\ mpc' = "returned"
              /\ run_result' = SingleResult(res)
              /\ UNCHANGED <<wpc, fails>>
         ELSE /\ wpc' = AfterCheck(res)
              /\ fails' = IF res = "err" THEN fails + 1 ELSE 0
              /\ UNCHANGED <<mpc, run_result>>
    /\ UNCHANGED <<runtime_mode, check_interval, running, park_token,
                   remaining, handler_installed, hpc, signals, started,
                   waits_ended, workers_spawned, after_cancel, store_at,
                   woke_by,
                   exit_status,
                   config,
                   run_error,
                   sys,
                   report>>

\* Uuid::new_v4() then SystemTime::now().duration_since(UNIX_EPOCH)
StepTimestamp(t) ==
    /\ Executing(t)
    /\ stage[t] = "timestamp"
    /\ \E res \in Results :
         LET calls == <<Call("message_id", "ok"), Call("timestamp", res)>> IN
         IF res = "ok" THEN Advance(t, calls, "report")
                       ELSE Finish(t, calls, "err")
    /\ UNCHANGED <<connected, payload, published>>

\* generate_report(sys)? : every path of generate_report returns Ok
StepReport(t) ==
    /\ Executing(t)
    /\ stage[t] = "report"
    /\ Advance(t, <<Call("report", "ok")>>, "serialize")
    /\ UNCHANGED <<connected, payload, published>>

\* variant: a serialization error does not return
StepSerialize_GoesOn(t) ==
    /\ Executing(t)
    /\ stage[t] = "serialize"
    /\ \E res \in Results :
         IF res = "ok"
           THEN /\ Advance(t, <<Call("serialize", "ok"), Call("compress", "ok")>>, "connect")
                /\ payload' = [payload EXCEPT ![t] = started[t]]
           ELSE /\ Advance(t, <<Call("serialize", "err")>>, "connect")
                /\ UNCHANGED payload
    /\ UNCHANGED <<connected, published>>

\* serde_json::to_string, then compress_prepend_size (infallible)
StepSerialize(t) ==
    /\ Executing(t)
    /\ stage[t] = "serialize"
    /\ \E res \in Results :
         IF res = "ok"
           THEN /\ Advance(t, <<Call("serialize", "ok"), Call("compress", "ok")>>, "connect")
                /\ payload' = [payload EXCEPT ![t] = started[t]]
           ELSE /\ Finish(t, <<Call("serialize", "err")>>, "err")
                /\ UNCHANGED payload
    /\ UNCHANGED <<connected, published>>

\* variant: a connect failure does not return
AfterConnect_Ignore(res) == "publish"

\* ------------------------------------------------ Runner::transmit_report
\* if let Err(e) = connect(..) { return Err } ; otherwise on to publish
AfterConnect(res) == IF res = "err" THEN "return" ELSE "publish"

\* if let Err(e) = publish(msg) { return Err } ; otherwise on to disconnect
AfterPublish(res) == IF res = "err" THEN "return" ELSE "disconnect"

StepConnect(t) ==
    /\ Executing(t)
    /\ stage[t] = "connect"
    /\ \E res \in Results :
         /\ IF AfterConnect(res) = "return"
              THEN Finish(t, <<Call("connect", res)>>, "err")
              ELSE Advance(t, <<Call("connect", res)>>, AfterConnect(res))
         /\ connected' = IF res = "ok" THEN TRUE ELSE connected
    /\ UNCHANGED <<payload, published>>

StepPublish(t) ==
    /\ Executing(t)
    /\ stage[t] = "publish"
    /\ \E res \in Results :
         /\ IF AfterPublish(res) = "return"
              THEN Finish(t, <<Call("publish", res)>>, "err")
              ELSE Advance(t, <<Call("publish", res)>>, AfterPublish(res))
         \* a failed publish may or may not have lost the connection
         /\ connected' \in IF res = "ok" THEN {connected} ELSE {connected, FALSE}
    /\ published' = [published EXCEPT ![t] = payload[t]]
    /\ UNCHANGED payload

\* match disconnect(None) { Ok => Ok(()), Err => Err }
StepDisconnect(t) ==
    /\ Executing(t)
    /\ stage[t] = "disconnect"
    /\ \E res \in Results :
         /\ Finish(t, <<Call("disconnect", res)>>, res)
         \* a failed disconnect may or may not have closed the connection
         /\ connected' \in IF res = "ok" THEN {FALSE} ELSE {connected, FALSE}
    /\ UNCHANGED <<payload, published>>

\* ------------------------------------------------------ run(): Single arm
\* RuntimeMode::Single => runner.execute_check(&mut sys) on the calling thread
MatchSingle ==
    /\ mpc = "match_mode"
    /\ runtime_mode = "Single"
    /\ mpc' = "single_check"
    /\ BeginCycle("main")
    /\ UNCHANGED <<run_result, runtime_mode, check_interval, wpc, running,
                   park_token, remaining, handler_installed, hpc, signals,
                   connected, ended, fails, waits_ended, workers_spawned,
                   after_cancel, store_at, woke_by,
                   exit_status,
                   config,
                   run_error,
                   sys,
                   report>>

\* -------------------------------------------------- run(): Continuous arm
\* RuntimeMode::Continuous => running = Arc::new(AtomicBool::new(true))
MatchContinuous ==
    /\ mpc = "match_mode"
    /\ runtime_mode = "Continuous"
    /\ mpc' = "spawn"
    /\ running' = TRUE
    /\ UNCHANGED <<run_result, runtime_mode, check_interval, wpc, park_token,
                   remaining, handler_installed, hpc, signals, stage, trace,
                   connected, started, ended, fails, waits_ended,
                   workers_spawned, after_cancel, store_at, woke_by,
                   exit_status,
                   config,
                   run_error,
                   payload,
                   published,
                   sys,
                   report>>

\* thread::spawn(move || { while ... }) : the worker starts at the loop head
Spawn ==
    /\ mpc = "spawn"
    /\ mpc' = "set_handler"
    /\ wpc' = "load"
    /\ workers_spawned' = workers_spawned + 1
    /\ UNCHANGED <<run_result, runtime_mode, check_interval, running,
                   park_token, remaining, handler_installed, hpc, signals,
                   stage, trace, connected, started, ended, fails,
                   waits_ended, after_cancel, store_at, woke_by,
                   exit_status,
                   config,
                   run_error,
                   payload,
                   published,
                   sys,
                   report>>

\* variant: the loop does not test the flag
LoopTest_Always(flag) == "call"

\* while running.load(SeqCst) { ... } : the loop test on the loaded value
LoopTest(flag) == IF flag THEN "call" ELSE "stopped"

\* the worker loads the flag; the closure returns when it reads false
WorkerLoad ==
    /\ Alive
    /\ wpc = "load"
    /\ LoopTest(running) = "call" => started["worker"] < MaxCycles
    /\ wpc' = LoopTest(running)
    /\ UNCHANGED <<mpc, run_result, runtime_mode, check_interval, running,
                   park_token, remaining, handler_installed, hpc, signals,
                   stage, trace, connected, started, ended, fails,
                   waits_ended, workers_spawned, after_cancel, store_at,
                   woke_by,
                   exit_status,
                   config,
                   run_error,
                   payload,
                   published,
                   sys,
                   report>>

\* the loop body calls runner.execute_check(&mut sys)
WorkerCall ==
    /\ Alive
    /\ wpc = "call"
    /\ wpc' = "in_check"
    /\ BeginCycle("worker")
    /\ after_cancel' = IF running THEN after_cancel ELSE after_cancel + 1
    /\ UNCHANGED <<mpc, run_result, runtime_mode, check_interval, running,
                   park_token, remaining, handler_installed, hpc, signals,
                   connected, ended, fails, waits_ended, workers_spawned,
                   store_at, woke_by,
                   exit_status,
                   config,
                   run_error,
                   sys,
                   report>>

\* variant: the wait forgets an unpark that came before it
WorkerPark_ClearsToken ==
    /\ Alive
    /\ wpc = "park"
    /\ wpc' = "parked"
    /\ remaining' = check_interval * MINUTES_MULTIPLIER
    /\ park_token' = FALSE
    /\ UNCHANGED <<mpc, run_result, runtime_mode, check_interval, running,
                   handler_installed, hpc, signals, stage, trace,
                   connected, started, ended, fails, waits_ended,
                   workers_spawned, after_cancel, store_at, woke_by,
                   exit_status,
                   config,
                   run_error,
                   payload,
                   published,
                   sys,
                   report>>

\* variant: the loop body does not wait between cycles
WorkerPark_Skip ==
    /\ Alive
    /\ wpc = "park"
    /\ wpc' = "load"
    /\ UNCHANGED <<mpc, run_result, runtime_mode, check_interval, running,
                   park_token, remaining, handler_installed, hpc, signals,
                   stage, trace, connected, started, ended, fails,
                   waits_ended, workers_spawned, after_cancel, store_at,
                   woke_by,
                   exit_status,
                   config,
                   run_error,
                   payload,
                   published,
                   sys,
                   report>>

\* thread::park_timeout(Duration::from_secs(check_interval * MINUTES_MULTIPLIER))
WorkerPark ==
    /\ Alive
    /\ wpc = "park"
    /\ wpc' = "parked"
    /\ remaining' = check_interval * MINUTES_MULTIPLIER
    /\ UNCHANGED <<mpc, run_result, runtime_mode, check_interval, running,
                   park_token, handler_installed, hpc, signals, stage, trace,
                   connected, started, ended, fails, waits_ended,
                   workers_spawned, after_cancel, store_at, woke_by,
                   exit_status,
                   config,
                   run_error,
                   payload,
                   published,
                   sys,
                   report>>

\* park_timeout returns to the loop head
WakeUp(why) ==
    /\ wpc' = "load"
    /\ woke_by' = why
    /\ waits_ended' = waits_ended + 1
    /\ UNCHANGED <<mpc, run_result, runtime_mode, check_interval, running,
                   remaining, handler_installed, hpc, signals, stage, trace,
                   connected, started, ended, fails, workers_spawned,
                   after_cancel, store_at,
                   exit_status,
                   config,
                   run_error,
                   payload,
                   published,
                   sys,
                   report>>

\* the token is available: park_timeout consumes it and returns at once
ParkUnparked ==
    /\ Alive
    /\ wpc = "parked"
    /\ park_token
    /\ park_token' = FALSE
    /\ WakeUp("unpark")

\* one minute of the timeout passes while the worker is blocked
Tick ==
    /\ Alive
    /\ wpc = "parked"
    /\ remaining > 0
    /\ remaining' = remaining - MINUTES_MULTIPLIER
    /\ UNCHANGED <<mpc, run_result, runtime_mode, check_interval, wpc,
                   running, park_token, handler_installed, hpc, signals,
                   stage, trace, connected, started, ended, fails,
                   waits_ended, workers_spawned, after_cancel, store_at,
                   woke_by,
                   exit_status,
                   config,
                   run_error,
                   payload,
                   published,
                   sys,
                   report>>

\* the timeout has elapsed: park_timeout returns, clearing the token
ParkTimeout ==
    /\ Alive
    /\ wpc = "parked"
    /\ remaining = 0
    /\ park_token' = FALSE
    /\ WakeUp("timeout")

\* park_timeout, like park, may return spuriously without a token
ParkSpurious ==
    /\ Alive
    /\ wpc = "parked"
    /\ remaining > 0
    /\ ~park_token
    /\ UNCHANGED park_token
    /\ WakeUp("spurious")

\* ------------------------------------------------- the interrupt handler
\* ctrlc::set_handler(move || { ... }) returns Ok(()): fall through to join
SetHandlerOk ==
    /\ mpc = "set_handler"
    /\ mpc' = "join"
    /\ handler_installed' = TRUE
    /\ UNCHANGED <<run_result, runtime_mode, check_interval, wpc, running,
                   park_token, remaining, hpc, signals, stage, trace,
                   connected, started, ended, fails, waits_ended,
                   workers_spawned, after_cancel, store_at, woke_by,
                   exit_status,
                   config,
                   run_error,
                   payload,
                   published,
                   sys,
                   report>>

\* ctrlc::set_handler returns Err(e): return Err(error)
SetHandlerErr ==
    /\ mpc = "set_handler"
    /\ mpc' = "returned"
    /\ run_result' = "handler_err"
    /\ run_error' = Error("RuntimeError", "ctrlc::set_handler", <<>>)
    /\ UNCHANGED <<runtime_mode, check_interval, wpc, running, park_token,
                   remaining, handler_installed, hpc, signals, stage, trace,
                   connected, started, ended, fails, waits_ended,
                   workers_spawned, after_cancel, store_at, woke_by,
                   exit_status,
                   config,
                   payload,
                   published,
                   sys,
                   report>>

\* variant: the handler flips the flag instead of clearing it
HandlerStore_Toggle ==
    /\ Alive
    /\ handler_installed
    /\ hpc = "idle"
    /\ signals < MaxSignals
    /\ running' = ~running
    /\ hpc' = "unpark"
    /\ signals' = signals + 1
    /\ store_at' = IF store_at = "never" THEN wpc ELSE store_at
    /\ UNCHANGED <<mpc, run_result, runtime_mode, check_interval, wpc,
                   park_token, remaining, handler_installed, stage, trace,
                   connected, started, ended, fails, waits_ended,
                   workers_spawned, after_cancel, woke_by,
                   exit_status,
                   config,
                   run_error,
                   payload,
                   published,
                   sys,
                   report>>

\* variant: the handler unparks without clearing the flag
HandlerStore_NoStore ==
    /\ Alive
    /\ handler_installed
    /\ hpc = "idle"
    /\ signals < MaxSignals
    /\ hpc' = "unpark"
    /\ signals' = signals + 1
    /\ store_at' = IF store_at = "never" THEN wpc ELSE store_at
    /\ UNCHANGED <<mpc, run_result, runtime_mode, check_interval, wpc,
                   running, park_token, remaining, handler_installed, stage,
                   trace, connected, started, ended, fails, waits_ended,
                   workers_spawned, after_cancel, woke_by,
                   exit_status,
                   config,
                   run_error,
                   payload,
                   published,
                   sys,
                   report>>

\* an interrupt arrives: the handler runs r.store(false, SeqCst)
HandlerStore ==
    /\ Alive
    /\ handler_installed
    /\ hpc = "idle"
    /\ signals < MaxSignals
    /\ running' = FALSE
    /\ hpc' = "unpark"
    /\ signals' = signals + 1
    /\ store_at' = IF store_at = "never" THEN wpc ELSE store_at
    /\ UNCHANGED <<mpc, run_result, runtime_mode, check_interval, wpc,
                   park_token, remaining, handler_installed, stage, trace,
                   connected, started, ended, fails, waits_ended,
                   workers_spawned, after_cancel, woke_by,
                   exit_status,
                   config,
                   run_error,
                   payload,
                   published,
                   sys,
                   report>>

\* variant: the handler does not unpark the worker
Unpark_Lost(token) == token

\* run_thread_shutdown.unpark() makes the worker's token available
Unpark(token) == TRUE

HandlerUnpark ==
    /\ Alive
    /\ hpc = "unpark"
    /\ hpc' = "idle"
    /\ park_token' = Unpark(park_token)
    /\ UNCHANGED <<mpc, run_result, runtime_mode, check_interval, wpc,
                   running, remaining, handler_installed, signals, stage,
                   trace, connected, started, ended, fails, waits_ended,
                   workers_spawned, after_cancel, store_at, woke_by,
                   exit_status,
                   config,
                   run_error,
                   payload,
                   published,
                   sys,
                   report>>

\* variant: run() returns without waiting for the worker
MainJoin_NoWait ==
    /\ mpc = "join"
    /\ mpc' = "returned"
    /\ run_result' = "ok"
    /\ UNCHANGED <<runtime_mode, check_interval, wpc, running, park_token,
                   remaining, handler_installed, hpc, signals, stage, trace,
                   connected, started, ended, fails, waits_ended,
                   workers_spawned, after_cancel, store_at, woke_by,
                   exit_status,
                   config,
                   run_error,
                   payload,
                   published,
                   sys,
                   report>>

\* ----------------------------------------------------- join, return, exit
\* run_thread.join().unwrap() returns once the closure has returned; Ok(())
MainJoin ==
    /\ mpc = "join"
    /\ wpc = "stopped"
    /\ mpc' = "returned"
    /\ run_result' = "ok"
    /\ UNCHANGED <<runtime_mode, check_interval, wpc, running, park_token,
                   remaining, handler_installed, hpc, signals, stage, trace,
                   connected, started, ended, fails, waits_ended,
                   workers_spawned, after_cancel, store_at, woke_by,
                   exit_status,
                   config,
                   run_error,
                   payload,
                   published,
                   sys,
                   report>>

\* main() has no return value and calls no exit: after either arm of its
\* match the process ends with the status of a normal return
ExitStatus(res) == 0

\* main() matches on run()'s result, prints and returns: the process ends,
\* and a worker that has not returned from its closure ends with it
MainExit ==
    /\ mpc = "returned"
    /\ mpc' = "exited"
    /\ exit_status' = ExitStatus(run_result)
    /\ wpc' = IF wpc \in {"none", "stopped"} THEN wpc ELSE "killed"
    /\ UNCHANGED <<run_result, runtime_mode, check_interval, running,
                   park_token, remaining, handler_installed, hpc, signals,
                   stage, trace, connected, started, ended, fails,
                   waits_ended, workers_spawned, after_cancel, store_at,
                   woke_by,
                   config,
                   run_error,
                   payload,
                   published,
                   sys,
                   report>>

\* ---------------------------------------------------------- specification
Next ==
    \/ LoadConfigOk
    \/ LoadConfigErr
    \/ NewRunnerOk
    \/ NewRunnerErr
    \/ MatchSingle
    \/ MatchContinuous
    \/ Spawn
    \/ SetHandlerOk
    \/ SetHandlerErr
    \/ MainJoin
    \/ MainExit
    \/ WorkerLoad
    \/ WorkerCall
    \/ WorkerPark
    \/ ParkUnparked
    \/ Tick
    \/ ParkTimeout
    \/ ParkSpurious
    \/ HandlerStore
    \/ HandlerUnpark
    \/ \E t \in Threads : StepTimestamp(t)
    \/ \E t \in Threads : StepReport(t)
    \/ \E t \in Threads : StepSerialize(t)
    \/ \E t \in Threads : StepConnect(t)
    \/ \E t \in Threads : StepPublish(t)
    \/ \E t \in Threads : StepDisconnect(t)

Spec == Init /\ [][Next]_vars

\* the loader alone, on every configuration source
InitConfig ==
    /\ InitState
    /\ config \in ConfigFiles
    /\ sys = SteadyProvider

NextConfig ==
    \/ LoadConfigOk
    \/ LoadConfigErr

SpecConfig == InitConfig /\ [][NextConfig]_vars

\* generate_report alone, on every answer of the provider and both builds
GenerateReport ==
    /\ ~report.returned
    /\ ~report.panicked
    /\ \E checks \in BOOLEAN : report' = generate_report(sys, checks)
    /\ UNCHANGED <<mpc, run_result, runtime_mode, check_interval, wpc,
                   running, park_token, remaining, handler_installed, hpc,
                   signals, stage, trace, connected, started, ended, fails,
                   waits_ended, workers_spawned, after_cancel, store_at,
                   woke_by, exit_status, config, run_error, payload,
                   published, sys>>

InitReport ==
    /\ InitState
    /\ config = NoArg
    /\ sys \in ProviderValues

NextReport == GenerateReport

SpecReport == InitReport /\ [][NextReport]_vars

\* the worker's own steps, the timed ends of the wait left out
WorkerNext ==
    \/ WorkerLoad
    \/ WorkerCall
    \/ WorkerPark
    \/ ParkUnparked
    \/ StepTimestamp("worker")
    \/ StepReport("worker")
    \/ StepSerialize("worker")
    \/ StepConnect("worker")
    \/ StepPublish("worker")
    \/ StepDisconnect("worker")

\* fair scheduling of the worker, the handler thread and the joining main
\* thread; every step of a cycle terminates.  No fairness is put on the
\* passing of time, so nothing here relies on the timeout expiring.
FairSpec ==
    /\ Spec
    /\ WF_vars(WorkerNext)
    /\ WF_vars(HandlerUnpark)
    /\ WF_vars(MainJoin)

\* ---------------------------------------------------------------- helpers
Last(s) == s[Len(s)]
IsTransport(c) == c.op \in {"connect", "publish", "disconnect"}
\* the transport calls of a cycle, in the order they were made
Transport(t) == SelectSeq(trace[t], IsTransport)
TransportOrder == <<"connect", "publish", "disconnect">>
Made(t, op, res) == \E i \in 1..Len(trace[t]) : trace[t][i] = Call(op, res)
Attempts(t, op) == Cardinality({i \in 1..Len(trace[t]) : trace[t][i].op = op})
InCycle(t) == stage[t] # "idle"
\* the cycle ran to its end: through disconnect, or up to a step that failed
CycleComplete(t) ==
    /\ trace[t] # <<>>
    /\ Last(trace[t]).op = "disconnect" \/ Last(trace[t]).res = "err"
Returned == mpc \in {"returned", "exited"}

\* ------------------------------------------------------------------ claims

\* C1: in Single mode run() executes exactly one cycle, on the calling
\* thread, spawns no worker and returns Ok whether the cycle succeeded or
\* failed; no second cycle starts.  (A run whose Runner could not be built
\* never reaches the Single arm.)
C1_SingleOneCycle ==
    runtime_mode = "Single" =>
        /\ workers_spawned = 0
        /\ wpc = "none"
        /\ started["worker"] = 0
        /\ started["main"] <= 1
        /\ (Returned /\ run_result # "runner_err") =>
               /\ run_result = "ok"
               /\ started["main"] = 1
               /\ ended["main"] = 1
               /\ CycleComplete("main")

\* C1 witness: a Single run has returned Ok after a cycle that failed
C1_Witness ==
    /\ runtime_mode = "Single"
    /\ mpc = "returned"
    /\ run_result = "ok"
    /\ ended["main"] = 1
    /\ Last(trace["main"]).res = "err"

\* C2: in Continuous mode a cycle that fails never ends the worker loop: the
\* worker goes on to the inter-cycle wait, a loop test made while no
\* cancellation has been requested leads to the next cycle, and the worker
\* leaves the loop only when the flag has been cleared.
C2_FailedCycleContinues ==
    [][ /\ (fails' = fails + 1) => wpc' = "park"
        /\ (wpc = "load" /\ running /\ wpc' \notin {"load", "killed"}) => wpc' = "call"
        /\ (wpc # "stopped" /\ wpc' = "stopped") => ~running
      ]_vars

\* C2 witness: the worker is in a new cycle after two consecutive failed
\* cycles, with no cancellation requested
C2_Witness ==
    /\ fails >= 2
    /\ running
    /\ wpc = "in_check"
    /\ InCycle("worker")

\* C3: if publish fails after connect succeeded, disconnect is still
\* attempted exactly once in that cycle.
C3_PublishFailureDisconnects ==
    \A t \in Threads :
        (~InCycle(t) /\ Made(t, "connect", "ok") /\ Made(t, "publish", "err"))
            => Attempts(t, "disconnect") = 1

\* C4: a cancellation request never aborts a cycle in flight: the store of
\* the flag leaves the cycle where it is, and once cancellation has been
\* requested the worker is never cut off - it reaches Stopped only with its
\* last cycle run to its end, and run() returns only after that.
C4_CancelNeverAbortsCycle ==
    ~running =>
        /\ wpc # "killed"
        /\ wpc = "stopped" =>
               /\ ~InCycle("worker")
               /\ ended["worker"] = started["worker"]
               /\ started["worker"] > 0 => CycleComplete("worker")
        /\ Returned => wpc = "stopped"
        /\ (store_at = "in_check" /\ ~InCycle("worker")) =>
               /\ ended["worker"] >= 1
               /\ CycleComplete("worker")

\* C4 witness: the interrupt arrived while a cycle was between connect and
\* disconnect, and the worker stopped with that cycle run through disconnect
C4_Witness ==
    /\ ~running
    /\ store_at = "in_check"
    /\ wpc = "stopped"
    /\ Made("worker", "connect", "ok")
    /\ Last(trace["worker"]).op = "disconnect"

\* C5: in Continuous mode run() never returns, on any path, before the
\* worker has reached Stopped.
C5_ReturnAfterWorkerStopped ==
    (mpc = "returned" /\ workers_spawned > 0) => wpc = "stopped"

\* C6: a cancellation request that arrives while the worker is blocked in
\* the inter-cycle wait wakes it without the timeout (once the handler has
\* unparked, the wait can return at once), and the worker then reads the
\* cleared flag and leaves the loop without starting another cycle.
C6_CancelDuringWait ==
    /\ (wpc = "parked" /\ signals > 0 /\ hpc = "idle") => park_token
    /\ store_at = "parked" =>
           /\ wpc \in {"parked", "load", "stopped"}
           /\ after_cancel = 0
           /\ ~InCycle("worker")

\* C6 witness: cancelled during the wait, woken by the unpark with time
\* left on the timeout, and stopped
C6_Witness ==
    /\ store_at = "parked"
    /\ wpc = "stopped"
    /\ woke_by = "unpark"
    /\ remaining > 0

\* C7 (as stated): no cycle begins after the cancellation flag has been set.
C7_NoCycleAfterCancel == after_cancel = 0

\* C7 (amended): cancellation wins whenever the flag is cleared before the
\* worker's loop test: a cycle begins after the flag has been cleared only
\* if the loop test had already read it as true, and at most one cycle does.
C7_NoCycleAfterObservedCancel ==
    /\ after_cancel <= 1
    /\ store_at # "call" => after_cancel = 0
    /\ (store_at \in {"park", "parked", "load"}) =>
           (wpc \in {"park", "parked", "load", "stopped"} /\ ~InCycle("worker"))

\* C7 witness: the timeout expired, the flag was cleared before the loop
\* test, and the worker left the loop
C7_Witness ==
    /\ store_at = "load"
    /\ woke_by = "timeout"
    /\ wpc = "stopped"
    /\ after_cancel = 0

\* C8: once the interrupt handler has run, the worker leaves its loop, the
\* join completes and run() returns Ok.
C8_CancelTerminates ==
    (signals > 0) ~> (Returned /\ run_result = "ok" /\ wpc = "stopped")

\* C8 witness: run() has returned Ok from the join after a cancellation
C8_Witness ==
    /\ signals > 0
    /\ mpc = "returned"
    /\ run_result = "ok"
    /\ wpc = "stopped"

\* C9: the transport calls of a cycle are a prefix of connect, publish,
\* disconnect, each made at most once and each made only after the one
\* before it succeeded; a failed connect is followed by neither publish nor
\* disconnect.
C9_TransportOrder ==
    \A t \in Threads :
        /\ Len(Transport(t)) <= Len(TransportOrder)
        /\ \A i \in 1..Len(Transport(t)) :
               /\ Transport(t)[i].op = TransportOrder[i]
               /\ i < Len(Transport(t)) => Transport(t)[i].res = "ok"

\* C9 witness: a cycle that made all three transport calls
C9_Witness ==
    \E t \in Threads : Len(Transport(t)) = 3

\* C10: at most one cycle executes at any instant: one worker at most is
\* spawned (exactly one once Continuous mode has spawned), the main thread
\* runs no cycle in Continuous mode, and a worker cycle is in flight only
\* when every earlier cycle has returned and been followed by a wait that
\* has ended.
C10_OneCycleAtATime ==
    /\ Cardinality({t \in Threads : InCycle(t)}) <= 1
    /\ workers_spawned <= 1
    /\ mpc \in {"set_handler", "join"} => workers_spawned = 1
    /\ runtime_mode = "Continuous" => started["main"] = 0
    /\ \A t \in Threads :
           started[t] = ended[t] + (IF InCycle(t) THEN 1 ELSE 0)
    /\ waits_ended <= ended["worker"]
    /\ InCycle("worker") => waits_ended = ended["worker"]

\* C10 witness: the worker is in its second cycle
C10_Witness ==
    /\ workers_spawned = 1
    /\ started["worker"] = 2
    /\ InCycle("worker")
    /\ waits_ended = 1

\* C11: when load_config or Runner::new fails the run never begins: run()
\* returns the error with no cycle executed, no worker spawned, no interrupt
\* handler installed and no transport call made.
C11_FailedSetupRunsNothing ==
    run_result \in {"config_err", "runner_err"} =>
        /\ Returned
        /\ \A t \in Threads :
               /\ started[t] = 0
               /\ ~InCycle(t)
               /\ trace[t] = <<>>
        /\ workers_spawned = 0
        /\ wpc = "none"
        /\ ~handler_installed
        /\ signals = 0
        /\ ~connected

\* C11 witness: run() has returned the error of Runner::new for a
\* Continuous configuration
C11_Witness ==
    /\ mpc = "returned"
    /\ run_result = "runner_err"
    /\ runtime_mode = "Continuous"

\* C12: every fatal error returned by run() ends the process with a
\* non-zero exit status; status zero occurs only when run() returned Ok.
C12_FatalErrorExitsNonZero ==
    mpc = "exited" => (exit_status = 0 <=> run_result = "ok")

\* what a handled interrupt may touch besides the flag and the token
HandlerUntouched ==
    UNCHANGED <<mpc, run_result, runtime_mode, check_interval, wpc,
                remaining, handler_installed, stage, trace, connected,
                started, ended, fails, waits_ended, workers_spawned,
                after_cancel, woke_by, exit_status,
                   config,
                   run_error,
                   payload,
                   published,
                   sys,
                   report>>

\* C13: interrupt handling is idempotent: a second or later interrupt
\* leaves the flag cleared and touches nothing but the (already granted)
\* wake-up, so the flag, the cycles executed and the final state are those
\* of the first interrupt alone - the worker stops with the flag cleared,
\* having begun after the first store only the cycle whose loop test had
\* already passed, however many interrupts followed.
C13_RepeatedInterruptIdempotent ==
    /\ [][ /\ (signals >= 1 /\ signals' = signals + 1) =>
                (~running /\ ~running' /\ park_token' = park_token /\ HandlerUntouched)
           /\ (signals >= 1 /\ hpc = "unpark" /\ hpc' = "idle") =>
                (~running' /\ park_token' /\ signals' = signals /\ HandlerUntouched)
         ]_vars
    /\ [](signals >= 1 => ~running)
    /\ [](wpc = "stopped" =>
            after_cancel = (IF store_at = "call" THEN 1 ELSE 0))

\* C13 witness: two interrupts were handled and the run ended as after one
C13_Witness ==
    /\ signals = 2
    /\ hpc = "idle"
    /\ wpc = "stopped"
    /\ mpc = "returned"
    /\ run_result = "ok"
    /\ ended["worker"] >= 1

\* C14: for a Continuous configuration load_config succeeds with
\* check_interval equal to the configured value for every value in 1..240,
\* and fails with the range error for every value that is 0, negative or
\* greater than 240.
C14_CheckIntervalRange ==
    (/\ config.path = "file"
     /\ config.mode = "Continuous"
     /\ config.interval.kind = "int"
     /\ mpc # "load_config") =>
        IF config.interval.value \in 1..240
          THEN /\ mpc = "new_runner"
               /\ run_result = "none"
               /\ runtime_mode = "Continuous"
               /\ check_interval = config.interval.value
          ELSE /\ mpc = "returned"
               /\ run_result = "config_err"
               /\ run_error = RangeError
               /\ RangeError.args = <<1, 240>>

\* C14 witness: a negative check_interval has been refused with the range
\* error
C14_Witness ==
    /\ config.mode = "Continuous"
    /\ config.interval.kind = "int"
    /\ config.interval.value < 0
    /\ mpc = "returned"
    /\ run_error = RangeError

\* the first interrupt found the worker in a cycle, or past the loop test
\* and not yet waiting
CancelBeforeWait == store_at \in {"call", "in_check", "park"}

\* C15: if the interrupt arrives while a cycle is in flight, or after the
\* worker has read the flag as true and before it waits, the wake-up is not
\* lost: once the handler has unparked, the wait that follows can return at
\* once, the worker stops without relying on the timeout, and it begins no
\* cycle other than the one in flight.
C15_WakeUpNotLost ==
    /\ [](CancelBeforeWait =>
            /\ (wpc = "parked" /\ hpc = "idle") => park_token
            /\ after_cancel <= (IF store_at = "call" THEN 1 ELSE 0)
            /\ (wpc \in {"park", "parked", "load", "stopped"} /\ store_at = "call")
                   => after_cancel = 1
            /\ wpc # "killed")
    /\ (CancelBeforeWait ~> wpc = "stopped")

\* C15 witness: interrupted in mid-cycle, the worker found the token when it
\* went to wait, returned with the whole timeout left, and stopped
C15_Witness ==
    /\ store_at = "in_check"
    /\ wpc = "stopped"
    /\ woke_by = "unpark"
    /\ remaining = check_interval * MINUTES_MULTIPLIER
    /\ after_cancel = 0

\* C16: a cycle whose snapshot, timestamp read or serialization failed
\* makes no transport call; connect, publish and disconnect are made only
\* in a cycle whose report was built, serialized and compressed, and the
\* payload given to publish is the one built in that cycle.
C16_TransportOnlyAfterBuild ==
    \A t \in Threads :
        /\ Transport(t) # <<>> =>
               /\ Made(t, "timestamp", "ok")
               /\ Made(t, "report", "ok")
               /\ Made(t, "serialize", "ok")
               /\ Made(t, "compress", "ok")
               /\ payload[t] = started[t]
        /\ (\/ Made(t, "timestamp", "err")
            \/ Made(t, "report", "err")
            \/ Made(t, "serialize", "err")) =>
               (Transport(t) = <<>> /\ published[t] = 0 /\ ~InCycle(t))
        /\ published[t] = (IF Attempts(t, "publish") > 0 THEN started[t] ELSE 0)

\* C16 witness: the worker's second cycle failed to serialize and made no
\* transport call, after a first cycle that had published
C16_Witness ==
    /\ started["worker"] = 2
    /\ ~InCycle("worker")
    /\ Made("worker", "serialize", "err")
    /\ Transport("worker") = <<>>
    /\ fails = 1

\* C17: at the end of every cycle the transport connection is closed, so
\* connect is never called on a client an earlier cycle left connected.
C17_CycleLeavesClientClosed ==
    (\A t \in Threads :
        stage[t] \in {"idle", "timestamp", "report", "serialize", "connect"})
            => ~connected

\* C18: a cycle in which connect and publish succeeded and only disconnect
\* failed is not reported as a failed cycle.
C18_DisconnectFailureNotEscalated ==
    (/\ ~InCycle("worker")
     /\ Made("worker", "connect", "ok")
     /\ Made("worker", "publish", "ok")
     /\ Made("worker", "disconnect", "err")) => fails = 0

\* the place of the first call of op in the cycle of thread t, 0 if none
Pos(t, op) ==
    IF Attempts(t, op) = 0 THEN 0
    ELSE CHOOSE i \in 1..Len(trace[t]) :
           /\ trace[t][i].op = op
           /\ \A j \in 1..(i - 1) : trace[t][j].op # op

\* C19 (as stated): the messageId and the timestamp of a cycle are generated
\* after the snapshot of that cycle has been captured, not before it.
C19_IdsAfterSnapshot ==
    \A t \in Threads :
        /\ Attempts(t, "message_id") > 0 =>
               (Attempts(t, "report") > 0 /\ Pos(t, "report") < Pos(t, "message_id"))
        /\ Attempts(t, "timestamp") > 0 =>
               (Attempts(t, "report") > 0 /\ Pos(t, "report") < Pos(t, "timestamp"))

\* C19 (amended): the messageId and the timestamp are generated at the call
\* of execute_check, before the snapshot of that cycle is captured and not
\* after it; every cycle generates a messageId, and a cycle whose timestamp
\* read fails captures no snapshot.
C19_IdsBeforeSnapshot ==
    \A t \in Threads :
        /\ trace[t] # <<>> =>
               (Pos(t, "message_id") = 1 /\ Pos(t, "timestamp") = 2)
        /\ Attempts(t, "message_id") <= 1
        /\ Attempts(t, "timestamp") <= 1
        /\ Attempts(t, "report") > 0 =>
               /\ Made(t, "timestamp", "ok")
               /\ Pos(t, "message_id") < Pos(t, "report")
               /\ Pos(t, "timestamp") < Pos(t, "report")
        /\ Made(t, "timestamp", "err") => Attempts(t, "report") = 0
        /\ (started[t] > 0 /\ stage[t] # "timestamp") => Attempts(t, "message_id") = 1

\* C19 witness: the worker has captured the snapshot of a cycle whose ids
\* were generated before it
C19_Witness ==
    /\ Pos("worker", "message_id") = 1
    /\ Pos("worker", "timestamp") = 2
    /\ Pos("worker", "report") = 3

\* C20: every DiskReport and MemoryReport generate_report produces has
\* used <= capacity, for every answer of the provider, an answer with
\* available above total included: the subtraction total - available neither
\* wraps nor panics.
C20_UsedWithinCapacity ==
    /\ ~report.panicked
    /\ report.returned =>
           /\ \A i \in 1..Len(report.disks) :
                  report.disks[i].disk_used <= report.disks[i].disk_capacity
           /\ report.memory.memory_used <= report.memory.memory_capacity

====
